---- MODULE Spec2Model ----
(***************************************************************************)
(* Model of the ergo-explorer indexer core:                                *)
(*   - ErgoBlockProvider   (src/src/block_provider.rs): normalisation of  *)
(*     raw blocks and the ordered, bounded-parallel fetch stream;          *)
(*   - ErgoBlockPersistence (src/src/block_persistence.rs): input          *)
(*     resolution, store_blocks, update_blocks and the header queries,     *)
(*     on top of the redb/redbit transactional entity store;               *)
(*   - the concurrent reader started by main (src/src/main.rs).            *)
(* Option<T> values are sequences of length 0 (None) or 1 (Some).          *)
(***************************************************************************)
EXTENDS Integers, Sequences, FiniteSets, TLC

\* ---------------------------------------------------------------- bounds
MaxHeight == 2      \* heights of the modelled chain are 1..MaxHeight
MaxFork == 1        \* competing versions 0..MaxFork of the block at a height
MaxBatch == 2       \* most blocks handed to one store_blocks/update_blocks
MaxPar == 3         \* fetching_par ranges over 1..MaxPar
MaxTip == 4         \* tip / last heights of a stream call range up to MaxTip

Heights == 1..MaxHeight
Forks == 0..MaxFork

\* ------------------------------------------------------- integer widths
\* (the u32 casts of timestamp and weight are no-ops for the values modelled)
U16 == 65536
U8 == 256

\* ------------------------------------------------------- generic helpers
None == <<>>
Some(x) == <<x>>

\* lexicographic order of two pointer keys of the same length
\* (redb compares the big-endian encoded keys, parent first)
RECURSIVE LexLess(_, _)
LexLess(a, b) ==
  IF a = <<>> \/ b = <<>> THEN FALSE
  ELSE IF Head(a) # Head(b) THEN Head(a) < Head(b)
  ELSE LexLess(Tail(a), Tail(b))

\* the keys of a table in ascending key order
RECURSIVE KeysInOrder(_)
KeysInOrder(S) ==
  IF S = {} THEN <<>>
  ELSE LET m == CHOOSE x \in S : \A y \in S \ {x} : LexLess(x, y)
       IN <<m>> \o KeysInOrder(S \ {m})

\* ----------------------------------------------------------- model.rs
\* #[root_key] BlockHeight(u32); #[pointer_key] X(Parent): parent key + ordinal
TxPointer(height, index) == <<height, index % U16>>
UtxoPointer(txp, index) == <<txp[1], txp[2], index % U16>>
InputPointer(txp, index) == <<txp[1], txp[2], index % U16>>
AssetPointer(up, index) == <<up[1], up[2], up[3], index % U8>>

\* AssetType
Mint == "Mint"
Transfer == "Transfer"

\* ------------------------------------------------ raw blocks (the node)
\* Box identifiers are content derived and unique per output.
BoxOf(h, v, t, o) == ((h * 10 + v) * 10 + t) * 10 + o
UnknownBox == BoxOf(0, 0, 0, 0)
HashOf(h, v) == h * 10 + v
TxHashOf(h, v, t) == (h * 10 + v) * 10 + t

\* The block of version v at height h as the node serves it (FullBlock):
\*   tx 0 spends output 0 of tx 1 of version 0 of the previous height
\*        (an unknown box at height 1) and creates two outputs, the second
\*        carrying a token named after the first output's box and a token
\*        named after its own box;
\*   tx 1 spends output 1 of tx 0 of the same block and an unknown box and
\*        creates one output carrying a minted and a transferred token.
RawBlock(h, v) ==
  [ height |-> h,
    id |-> HashOf(h, v),
    parent_id |-> IF h = 1 THEN 0 ELSE HashOf(h - 1, v),
    timestamp |-> h * 1500 + v * 700,
    transactions |-> <<
      [ id |-> TxHashOf(h, v, 0),
        inputs |-> IF h = 1 THEN <<UnknownBox>> ELSE <<BoxOf(h - 1, 0, 1, 0)>>,
        outputs |-> << [box_id |-> BoxOf(h, v, 0, 0), value |-> 5, tokens |-> <<>>],
                       [box_id |-> BoxOf(h, v, 0, 1), value |-> 7,
                        tokens |-> << [token_id |-> BoxOf(h, v, 0, 0), amount |-> 3],
                                      [token_id |-> BoxOf(h, v, 0, 1), amount |-> 4] >>] >> ],
      [ id |-> TxHashOf(h, v, 1),
        inputs |-> <<BoxOf(h, v, 0, 1), UnknownBox>>,
        outputs |-> << [box_id |-> BoxOf(h, v, 1, 0), value |-> 7,
                        tokens |-> << [token_id |-> BoxOf(h, v, 1, 0), amount |-> 1],
                                      [token_id |-> BoxOf(h, v, 0, 0), amount |-> 2] >>] >> ]
    >> ]

\* ---------------------------------------------------- block_provider.rs
\* (the token is compared with the box of the output that carries it)
IsMintOwnBox(outs, out, asset) == out.box_id = asset.token_id

\* is_mint: outs.first().is_some_and(|o| o.box_id().into() == asset.token_id)
IsMint(outs, out, asset) == Len(outs) > 0 /\ outs[1].box_id = asset.token_id

\* ErgoBlockProvider::process_outputs
ProcessAssets(outs, out, utxo_pointer) ==
  [ index \in 1..Len(out.tokens) |->
      LET asset == out.tokens[index]
          is_mint == IsMint(outs, out, asset)
      IN [ id |-> AssetPointer(utxo_pointer, index - 1),
           name |-> asset.token_id,
           amount |-> asset.amount,
           asset_action |-> IF is_mint THEN Mint ELSE Transfer ] ]

ProcessOutputs(outs, tx_pointer) ==
  [ out_index \in 1..Len(outs) |->
      LET out == outs[out_index]
          utxo_pointer == UtxoPointer(tx_pointer, out_index - 1)
      IN [ id |-> utxo_pointer,
           assets |-> ProcessAssets(outs, out, utxo_pointer),
           amount |-> out.value,
           box_id |-> out.box_id ] ]

RECURSIVE Sum(_)
Sum(ns) == IF ns = <<>> THEN 0 ELSE Head(ns) + Sum(Tail(ns))

\* the BoxWeight returned by process_outputs: asset_count + result_outs.len()
BoxWeight(utxos) == Sum([i \in 1..Len(utxos) |-> Len(utxos[i].assets)]) + Len(utxos)

\* ErgoBlockProvider::process_block
ProcessBlock(b) ==
  LET id == b.height
      header == [ id |-> id,
                  timestamp |-> b.timestamp \div 1000,
                  hash |-> b.id,
                  prev_hash |-> b.parent_id ]
      result_txs ==
        [ tx_index \in 1..Len(b.transactions) |->
            LET tx == b.transactions[tx_index]
                tx_id == TxPointer(header.id, tx_index - 1)
            IN [ id |-> tx_id,
                 hash |-> tx.id,
                 utxos |-> ProcessOutputs(tx.outputs, tx_id),
                 inputs |-> <<>>,
                 transient_inputs |-> tx.inputs ] ]
      block_weight ==
        Sum([i \in 1..Len(result_txs) |->
               BoxWeight(result_txs[i].utxos) + Len(b.transactions[i].inputs)])
  IN [ id |-> id, header |-> header, transactions |-> result_txs,
       weight |-> block_weight ]

\* the normalised block of version v at height h
BlockOf(h, v) == ProcessBlock(RawBlock(h, v))

\* ------------------------------------------------ the entity store (redbit)
\* One table per entity of model.rs, keyed by the entity's `id`.
EmptyDb ==
  [ blocks |-> {}, headers |-> {}, txs |-> {}, utxos |-> {}, assets |-> {},
    inputs |-> {} ]

\* insert into a table keyed by id (an existing row of the key is replaced)
Put(table, row) == {r \in table : r.id # row.id} \cup {row}

RECURSIVE PutAll(_, _)
PutAll(table, rows) ==
  IF rows = <<>> THEN table ELSE PutAll(Put(table, Head(rows)), Tail(rows))

\* Utxo::store: the output row and its assets
UtxoStore(d, u) ==
  [ d EXCEPT !.utxos = Put(@, [id |-> u.id, amount |-> u.amount, box_id |-> u.box_id]),
             !.assets = PutAll(@, u.assets) ]

RECURSIVE UtxoStoreMany(_, _)
UtxoStoreMany(d, us) ==
  IF us = <<>> THEN d ELSE UtxoStoreMany(UtxoStore(d, Head(us)), Tail(us))

\* Transaction::store: the transaction row, its outputs and its input refs;
\* an InputRef row is keyed by InputRef.id
TransactionStore(d, tx) ==
  LET d1 == [ d EXCEPT !.txs = Put(@, [id |-> tx.id, hash |-> tx.hash]),
                       !.inputs = PutAll(@, tx.inputs) ]
  IN UtxoStoreMany(d1, tx.utxos)

\* BlockHeader::store and the Block primary key
HeaderStore(d, block) ==
  [ d EXCEPT !.blocks = @ \cup {block.id},
             !.headers = Put(@, block.header) ]

\* the k-th part of Block::store: part 0 is the header, part k the k-th
\* transaction subtree
StorePart(d, block, k) ==
  IF k = 0 THEN HeaderStore(d, block)
  ELSE TransactionStore(d, block.transactions[k])

StoreParts(block) == Len(block.transactions) + 1

RECURSIVE StoreUpTo(_, _, _)
StoreUpTo(d, block, k) ==
  IF k = 0 THEN d ELSE StorePart(StoreUpTo(d, block, k - 1), block, k - 1)

\* (commit as soon as the header has been written)
CommitAfterHeader(block, staged_parts) == staged_parts >= 1

\* store_blocks commits once Block::store has written the whole block
CommitDue(block, staged_parts) == staged_parts = StoreParts(block)

\* Block::store(write_tx, block)
BlockStore(d, block) == StoreUpTo(d, block, StoreParts(block))

\* (only the block and its header are removed, the children stay)
BlockDeleteNoCascade(d, height) ==
  [ d EXCEPT !.blocks = @ \ {height},
             !.headers = {r \in @ : r.id # height} ]

\* Block::delete(write_tx, id): the block and, by key range of the parent
\* key, every row whose pointer key starts with the height
BlockDelete(d, height) ==
  [ blocks |-> d.blocks \ {height},
    headers |-> {r \in d.headers : r.id # height},
    txs |-> {r \in d.txs : r.id[1] # height},
    utxos |-> {r \in d.utxos : r.id[1] # height},
    assets |-> {r \in d.assets : r.id[1] # height},
    inputs |-> {r \in d.inputs : r.id[1] # height} ]

\* Utxo::get_ids_by_box_id(read_tx, box_id): index lookup, in key order
GetIdsByBoxId(d, box_id) ==
  KeysInOrder({u.id : u \in {r \in d.utxos : r.box_id = box_id}})

\* (the row of the least key)
HeaderFirst(d) ==
  IF d.headers = {} THEN None
  ELSE Some(CHOOSE r \in d.headers : \A q \in d.headers : r.id <= q.id)

\* BlockHeader::last(read_tx): the row of the greatest key
HeaderLast(d) ==
  IF d.headers = {} THEN None
  ELSE Some(CHOOSE r \in d.headers : \A q \in d.headers : q.id <= r.id)

\* BlockHeader::get_by_hash(read_tx, hash): hash index lookup, in key order
HeaderRow(d, height) == CHOOSE r \in d.headers : r.id = height

\* (lookup in the prev_hash index)
HeaderGetByPrevHash(d, hash) ==
  LET ks == KeysInOrder({<<r.id>> : r \in {q \in d.headers : q.prev_hash = hash}})
  IN [i \in 1..Len(ks) |-> HeaderRow(d, ks[i][1])]

HeaderGetByHash(d, hash) ==
  LET ks == KeysInOrder({<<r.id>> : r \in {q \in d.headers : q.hash = hash}})
  IN [i \in 1..Len(ks) |-> HeaderRow(d, ks[i][1])]

\* ------------------------------------------------- block_persistence.rs
\* the reserved pointer (height 0, tx 0, out 0)
Sentinel == InputPointer(TxPointer(0, 0), 0)

\* (the last of several matching outputs is taken)
ResolveInputLast(read_tx, box_id) ==
  LET utxo_pointers == GetIdsByBoxId(read_tx, box_id)
      n == Len(utxo_pointers)
  IN IF utxo_pointers # <<>>
     THEN [id |-> InputPointer(<<utxo_pointers[n][1], utxo_pointers[n][2]>>,
                                utxo_pointers[n][3])]
     ELSE [id |-> Sentinel]

\* (tx index and output index swapped in the pointer)
ResolveInputSwapped(read_tx, box_id) ==
  LET utxo_pointers == GetIdsByBoxId(read_tx, box_id)
  IN IF utxo_pointers # <<>>
     THEN [id |-> InputPointer(<<utxo_pointers[1][1], utxo_pointers[1][3]>>,
                                utxo_pointers[1][2])]
     ELSE [id |-> Sentinel]

\* the InputRef pushed by populate_inputs for one spent box identifier
ResolveInput(read_tx, box_id) ==
  LET utxo_pointers == GetIdsByBoxId(read_tx, box_id)
  IN IF utxo_pointers # <<>>
     THEN [id |-> InputPointer(<<utxo_pointers[1][1], utxo_pointers[1][2]>>,
                                utxo_pointers[1][3])]
     ELSE [id |-> Sentinel]

\* ErgoBlockPersistence::populate_inputs
PopulateInputs(read_tx, block) ==
  [ block EXCEPT !.transactions =
      [ t \in 1..Len(block.transactions) |->
          LET tx == block.transactions[t]
          IN [ tx EXCEPT !.inputs = tx.inputs \o
                 [ i \in 1..Len(tx.transient_inputs) |->
                     ResolveInput(read_tx, tx.transient_inputs[i]) ] ] ] ]

\* what the read transaction opened by store_blocks sees: begin_read gives
\* the last committed state, the write transaction of the block is opened
\* only after populate_inputs has returned
ResolverView(committed_db, block) == committed_db

\* one successful iteration of the loop of store_blocks
StoreOne(committed_db, block) ==
  BlockStore(committed_db, PopulateInputs(ResolverView(committed_db, block), block))

\* (the commit is put off: the committed state stays what it was)
CommitDeferred(committed_db, staged) == committed_db

\* commit() makes what the write transaction staged the committed state
Committed(committed_db, staged) == staged

\* (what was staged before the failure stays in the database)
AbortKeepsStaged(committed_db, staged) == staged

\* a write transaction dropped without commit is rolled back
Abort(committed_db, staged) == committed_db

\* (the read transaction opened at the previous step is used again)
FreshReadReused(committed_db, previous_read) == previous_read

\* store_blocks opens a new read transaction for every block: it sees the
\* state committed at that moment
FreshRead(committed_db, previous_read) == committed_db

\* what a read transaction of the http server (main.rs) sees
BeginRead(committed_db, staged) == committed_db

\* ErgoBlockPersistence::get_last_header, the Ok value
GetLastHeader(committed_db) == HeaderLast(BeginRead(committed_db, committed_db))

\* ErgoBlockPersistence::get_header_by_hash, the Ok value
GetHeaderByHash(committed_db, hash) ==
  HeaderGetByHash(BeginRead(committed_db, committed_db), hash)

\* ---------------------------------------------------------------- state
VARIABLES
  db,        \* the committed state of the redb database
  wtx,       \* Option: the uncommitted state of the open write transaction
  pc,        \* position of the indexing flow inside the persistence call
  op,        \* "store" or "update": the call in progress / last completed
  args,      \* the <<height, version>> pairs of the blocks of that call
  blocks,    \* the Vec<Block> of that call (inputs filled in place)
  idx,       \* loop index into blocks
  wpos,      \* parts of Block::store already staged in wtx
  result,    \* Option: "Ok" / "Err" of the last completed call
  failedAt,  \* where the last call failed ("" when it did not)
  writes,    \* write transactions the current call has begun
  dbTx,      \* db when the current block's read transaction was opened
  trail,     \* monitor of the calls completed since construction
  stored,    \* per height: Option, the block (inputs included) committed there
  deleted,   \* heights the delete transaction of the current call emptied
  replacedBoxes, \* box identifiers of the outputs that transaction removed
  snap,      \* Option: the open read transaction of the http server
  smode,     \* stream: "idle", "active", "done", "panicked"
  par,       \* stream: fetching_par
  lastH,     \* stream: last_height, first height of the range
  tipH,      \* stream: chain_tip_header.id, last height of the range
  nextH,     \* stream: next height the range iterator yields
  queue,     \* stream: the Buffered queue of spawned fetches, in spawn order
  started,   \* stream: heights whose fetch task was spawned
  emitted,   \* stream: heights handed to the consumer, in order
  finished,  \* stream: heights in the order their fetch finished
  lastHeader,\* stream: the last_header argument, Option of its height
  failed     \* stream: heights whose fetch returned an error

pvars == <<db, wtx, pc, op, args, blocks, idx, wpos, result, failedAt, writes,
           dbTx, trail, stored, deleted, replacedBoxes, snap>>
svars == <<smode, par, lastH, tipH, nextH, queue, started, emitted, finished,
           lastHeader, failed>>
vars == <<pvars, svars>>

\* storage::get_db: a fresh database (the sample block is stored and deleted)
InitP ==
  /\ db = BlockDelete(BlockStore(EmptyDb, BlockOf(1, 0)), 1)
  /\ wtx = None
  /\ pc = "idle"
  /\ op = ""
  /\ args = <<>>
  /\ blocks = <<>>
  /\ idx = 0
  /\ wpos = 0
  /\ result = None
  /\ failedAt = ""
  /\ writes = 0
  /\ dbTx = EmptyDb
  /\ trail = <<>>
  /\ stored = [h \in Heights |-> None]
  /\ deleted = {}
  /\ replacedBoxes = {}
  /\ snap = None

InitS ==
  /\ smode = "idle"
  /\ par = 1
  /\ lastH = 1
  /\ tipH = 0
  /\ nextH = 1
  /\ queue = <<>>
  /\ started = {}
  /\ emitted = <<>>
  /\ finished = <<>>
  /\ lastHeader = None
  /\ failed = {}

Init == InitP /\ InitS

\* ------------------------------------------------ the calls of the scheduler
\* the blocks of version v at the n consecutive heights from h on
Batch(h, n, v) == [i \in 1..n |-> <<h + i - 1, v>>]

\* batches of blocks at consecutive ascending heights, as the stream and
\* the walk back along a fork deliver them
Batches ==
  { Batch(h, n, v) : h \in Heights, n \in 1..MaxBatch, v \in Forks }

Consecutive(a) ==
  /\ \A i \in 1..Len(a) : a[i][1] \in Heights
  /\ \A i \in 1..(Len(a) - 1) : a[i + 1][1] = a[i][1] + 1

\* store_blocks is given new heights, or a block that is already stored
\* (the stream starts again from the last indexed height)
Storable(a) ==
  /\ Consecutive(a)
  /\ \A i \in 1..Len(a) :
       a[i][1] \in db.blocks => HeaderRow(db, a[i][1]).hash = HashOf(a[i][1], a[i][2])

\* update_blocks is given the replacement of the chain from the fork point
\* up to (at least) the stored tip
Replacing(a) ==
  /\ Consecutive(a)
  /\ \A h \in db.blocks : h <= a[Len(a)][1]

\* A read transaction is a snapshot: it neither blocks the writer nor
\* changes once opened, so what a request can observe does not depend on
\* how long it lasts; a request is taken to finish before the indexing
\* flow takes its next step.
NoOpenRequest == snap = None

StartCall(o, a) ==
  /\ NoOpenRequest
  /\ pc = "idle"
  /\ op' = o
  /\ args' = a
  /\ blocks' = [i \in 1..Len(a) |-> BlockOf(a[i][1], a[i][2])]
  /\ idx' = 1
  /\ wpos' = 0
  /\ result' = None
  /\ failedAt' = ""
  /\ writes' = 0
  /\ dbTx' = db
  /\ deleted' = {}
  /\ replacedBoxes' = {}
  /\ UNCHANGED <<db, wtx, trail, stored, snap, svars>>

CallStoreBlocks ==
  \E a \in Batches :
    /\ Storable(a)
    /\ StartCall("store", a)
    /\ pc' = "read"

CallUpdateBlocks ==
  \E a \in Batches :
    /\ Replacing(a)
    /\ StartCall("update", a)
    /\ pc' = "del_begin"

\* trail follows the completed calls for as long as they are
\* update_blocks([B]) = Ok and then store_blocks([B]) = Ok on a fresh store
Other == <<"other">>

TrailAfter(res) ==
  IF trail = <<>> /\ op = "update" /\ Len(args) = 1 /\ res = "Ok"
  THEN <<args[1]>>
  ELSE IF Len(trail) = 1 /\ trail # Other /\ op = "store" /\ args = trail /\ res = "Ok"
  THEN <<args[1], args[1]>>
  ELSE Other

\* the call returns to the scheduler
Return(res, at) ==
  /\ pc' = "idle"
  /\ result' = Some(res)
  /\ failedAt' = at
  /\ wtx' = None
  /\ trail' = TrailAfter(res)
  /\ replacedBoxes' = {}

\* ------------------------------------------------------------ store_blocks
\* begin_read + populate_inputs for blocks[idx]
Populate ==
  /\ NoOpenRequest
  /\ pc = "read"
  /\ blocks' = [blocks EXCEPT ![idx] =
                  PopulateInputs(ResolverView(FreshRead(db, dbTx), blocks[idx]), @)]
  /\ dbTx' = FreshRead(db, dbTx)
  /\ pc' = "write"
  /\ UNCHANGED <<deleted, replacedBoxes, db, wtx, op, args, idx, wpos, result, failedAt, writes, trail,
                 stored, snap, svars>>

\* begin_read()? returns the error
BeginReadFails ==
  /\ NoOpenRequest
  /\ pc = "read"
  /\ Return("Err", "read")
  /\ UNCHANGED <<deleted, db, op, args, blocks, idx, wpos, writes, dbTx, stored, snap, svars>>

\* begin_write()
BeginWrite ==
  /\ NoOpenRequest
  /\ pc = "write"
  /\ wtx' = Some(db)
  /\ wpos' = 0
  /\ writes' = writes + 1
  /\ pc' = "staging"
  /\ UNCHANGED <<deleted, replacedBoxes, db, op, args, blocks, idx, result, failedAt, dbTx, trail,
                 stored, snap, svars>>

\* Block::store(&write_ins, block), one part at a time
StoreStep ==
  /\ NoOpenRequest
  /\ pc = "staging"
  /\ wpos < StoreParts(blocks[idx])
  /\ wtx' = Some(StorePart(wtx[1], blocks[idx], wpos))
  /\ wpos' = wpos + 1
  /\ UNCHANGED <<deleted, replacedBoxes, db, pc, op, args, blocks, idx, result, failedAt, writes, dbTx,
                 trail, stored, snap, svars>>

\* write_ins.commit(), then the next block or Ok(())
Commit ==
  /\ NoOpenRequest
  /\ pc = "staging"
  /\ CommitDue(blocks[idx], wpos)
  /\ db' = Committed(db, wtx[1])
  /\ stored' = [stored EXCEPT ![blocks[idx].id] = Some(blocks[idx])]
  /\ IF idx < Len(blocks)
     THEN /\ idx' = idx + 1
          /\ pc' = "read"
          /\ wtx' = None
          /\ UNCHANGED <<result, failedAt, trail, replacedBoxes>>
     ELSE /\ idx' = idx
          /\ Return("Ok", "")
  /\ UNCHANGED <<op, args, blocks, wpos, writes, dbTx, deleted, snap, svars>>

\* begin_write()?, Block::store(..)? or commit()? returns the error; the
\* write transaction is dropped
WriteFails ==
  /\ NoOpenRequest
  /\ pc \in {"write", "staging"}
  /\ db' = Abort(db, IF wtx = None THEN db ELSE wtx[1])
  /\ Return("Err", IF pc = "write" THEN "begin_write"
                   ELSE IF wpos < StoreParts(blocks[idx]) THEN "store" ELSE "commit")
  /\ UNCHANGED <<deleted, op, args, blocks, idx, wpos, writes, dbTx, stored, snap, svars>>

\* ----------------------------------------------------------- update_blocks
\* begin_write()
DeleteBegin ==
  /\ NoOpenRequest
  /\ pc = "del_begin"
  /\ wtx' = Some(db)
  /\ writes' = writes + 1
  /\ dbTx' = db
  /\ pc' = "deleting"
  /\ UNCHANGED <<deleted, replacedBoxes, db, op, args, blocks, idx, wpos, result, failedAt, trail,
                 stored, snap, svars>>

\* (the transaction is committed after the first Block::delete)
DeleteDoneAfterFirst(bs, i) == i > 1

\* the loop over the given blocks has deleted every block id
DeleteDone(bs, i) == i > Len(bs)

\* Block::delete(&write_tx, &block.id) for blocks[idx]
DeleteStep ==
  /\ NoOpenRequest
  /\ pc = "deleting"
  /\ ~DeleteDone(blocks, idx)
  /\ wtx' = Some(BlockDelete(wtx[1], blocks[idx].id))
  /\ idx' = idx + 1
  /\ UNCHANGED <<deleted, replacedBoxes, db, pc, op, args, blocks, wpos, result, failedAt, writes, dbTx,
                 trail, stored, snap, svars>>

\* write_tx.commit(), then self.store_blocks(blocks)
DeleteCommit ==
  /\ NoOpenRequest
  /\ pc = "deleting"
  /\ DeleteDone(blocks, idx)
  /\ db' = Committed(db, wtx[1])
  /\ stored' = [h \in Heights |->
                  IF \E i \in 1..Len(blocks) : blocks[i].id = h THEN None ELSE stored[h]]
  /\ deleted' = {blocks[i].id : i \in 1..Len(blocks)} \cap db.blocks
  /\ replacedBoxes' = {r.box_id : r \in db.utxos \ wtx[1].utxos}
  /\ wtx' = None
  /\ idx' = 1
  /\ pc' = "read"
  /\ UNCHANGED <<op, args, blocks, wpos, result, failedAt, writes, dbTx, trail,
                 snap, svars>>

\* begin_write()?, Block::delete(..)? or commit()? returns the error
DeleteFails ==
  /\ NoOpenRequest
  /\ pc \in {"del_begin", "deleting"}
  /\ db' = Abort(db, IF wtx = None THEN db ELSE wtx[1])
  /\ Return("Err", "delete")
  /\ UNCHANGED <<deleted, op, args, blocks, idx, wpos, writes, dbTx, stored, snap, svars>>

\* ------------------------------------------------------- the http server
\* the heights an update_blocks in progress has deleted and not yet stored
Replaced ==
  IF op = "update" /\ pc \in {"read", "write", "staging"}
  THEN deleted \cap {blocks[i].id : i \in idx..Len(blocks)}
  ELSE {}

\* a request of the server opens a read transaction on the shared database
ReaderBegin ==
  /\ snap = None
  /\ snap' = Some([db |-> BeginRead(db, IF wtx = None THEN db ELSE wtx[1]),
                   stored |-> stored,
                   replacing |-> Replaced])
  /\ UNCHANGED <<deleted, replacedBoxes, db, wtx, pc, op, args, blocks, idx, wpos, result, failedAt,
                 writes, dbTx, trail, stored, svars>>

ReaderEnd ==
  /\ snap # None
  /\ snap' = None
  /\ UNCHANGED <<deleted, replacedBoxes, db, wtx, pc, op, args, blocks, idx, wpos, result, failedAt,
                 writes, dbTx, trail, stored, svars>>

\* ------------------------------------------- ErgoBlockProvider::stream
\* a fetch task: the height it fetches and "running", "ok" or "failed"
Task(height) == [height |-> height, st |-> "running"]

\* (the error is swallowed and the fetch of the height goes on)
FetchErrorRetried(task) == task

\* the spawned task unwraps the fetch result: on an error the task panics
\* and its JoinHandle resolves to Err(JoinError)
FetchError(task) == [task EXCEPT !.st = "failed"]

\* (off by one: one future more than fetching_par is admitted)
HasRoomInclusive(q, n) == Len(q) <= n

\* Buffered: room for another future while fewer than fetching_par are held
HasRoom(q, n) == Len(q) < n

\* Buffered::poll_next, first half: pull heights from the range and spawn
\* their fetch while there is room
RECURSIVE Fill(_, _)
Fill(q, next) ==
  IF HasRoom(q, par) /\ next <= tipH
  THEN Fill(Append(q, Task(next)), next + 1)
  ELSE [queue |-> q, next |-> next]

\* (buffer_unordered: whichever future has finished is yielded)
ReadyIndexUnordered(q) ==
  IF \E i \in 1..Len(q) : q[i].st # "running"
  THEN CHOOSE i \in 1..Len(q) :
         q[i].st # "running" /\ \A j \in 1..(i - 1) : q[j].st = "running"
  ELSE 0

\* Buffered::poll_next, second half (FuturesOrdered): the position of the
\* future whose output is yielded next, 0 when that future is still running
ReadyIndex(q) == IF q[1].st # "running" THEN 1 ELSE 0

RemoveAt(q, i) == [j \in 1..(Len(q) - 1) |-> IF j < i THEN q[j] ELSE q[j + 1]]

\* (the range starts after the last indexed height)
LastHeightNext(last_header) == IF last_header = None THEN 1 ELSE last_header[1] + 1

\* last_header.map_or(1, |h| h.id.0)
LastHeight(last_header) == IF last_header = None THEN 1 ELSE last_header[1]

\* stream(chain_tip_header, last_header)
StreamCall ==
  /\ smode \in {"idle", "done"}
  /\ \E n \in 1..MaxPar, tip \in 1..MaxTip, last \in {None} \cup {Some(h) : h \in 1..MaxTip} :
       /\ par' = n
       /\ tipH' = tip
       /\ lastHeader' = last
       /\ lastH' = LastHeight(last)
       /\ nextH' = LastHeight(last)
  /\ smode' = "active"
  /\ queue' = <<>>
  /\ started' = {}
  /\ emitted' = <<>>
  /\ finished' = <<>>
  /\ failed' = {}
  /\ UNCHANGED pvars

\* the consumer polls the stream
StreamPoll ==
  /\ smode = "active"
  /\ LET f == Fill(queue, nextH)
         r == IF f.queue = <<>> THEN 0 ELSE ReadyIndex(f.queue)
     IN /\ nextH' = f.next
        /\ started' = started \cup {f.queue[i].height : i \in 1..Len(f.queue)}
        /\ IF f.queue = <<>>
           THEN /\ smode' = "done"
                /\ queue' = f.queue
                /\ emitted' = emitted
           ELSE IF r = 0
           THEN /\ smode' = smode
                /\ queue' = f.queue
                /\ emitted' = emitted
           ELSE IF f.queue[r].st = "ok"
           THEN /\ smode' = smode
                /\ queue' = RemoveAt(f.queue, r)
                /\ emitted' = Append(emitted, f.queue[r].height)
           ELSE /\ smode' = "panicked"
                /\ queue' = RemoveAt(f.queue, r)
                /\ emitted' = emitted
  /\ UNCHANGED <<par, lastH, tipH, finished, lastHeader, failed, pvars>>

\* get_block_by_height_async returns the block
FetchCompletes ==
  /\ \E i \in 1..Len(queue) :
       /\ queue[i].st = "running"
       /\ queue' = [queue EXCEPT ![i].st = "ok"]
       /\ finished' = Append(finished, queue[i].height)
  /\ UNCHANGED <<smode, par, lastH, tipH, nextH, started, emitted, lastHeader, failed,
                 pvars>>

\* get_block_by_height_async returns an error: unwrap() panics in the task
FetchFails ==
  /\ \E i \in 1..Len(queue) :
       /\ queue[i].st = "running"
       /\ queue' = [queue EXCEPT ![i] = FetchError(@)]
       /\ finished' = Append(finished, queue[i].height)
       /\ failed' = failed \cup {queue[i].height}
  /\ UNCHANGED <<smode, par, lastH, tipH, nextH, started, emitted, lastHeader, pvars>>

NextS ==
  \/ StreamCall
  \/ StreamPoll
  \/ FetchCompletes
  \/ FetchFails

SpecS == Init /\ [][NextS]_vars

\* the consumer drains the stream it asked for, and the runtime runs every
\* spawned fetch until the node has answered it
FairSpecS ==
  /\ SpecS
  /\ WF_vars(StreamPoll)
  /\ WF_vars(FetchCompletes \/ FetchFails)

\* ------------------------------------------- indexing next to the server
Next ==
  \/ CallStoreBlocks
  \/ CallUpdateBlocks
  \/ Populate
  \/ BeginReadFails
  \/ BeginWrite
  \/ StoreStep
  \/ Commit
  \/ WriteFails
  \/ DeleteBegin
  \/ DeleteStep
  \/ DeleteCommit
  \/ DeleteFails
  \/ ReaderBegin
  \/ ReaderEnd

Spec == Init /\ [][Next]_vars

\* ================================================================ claims
\* the heights a..b in ascending order
HeightRange(a, b) == [i \in 1..(IF b >= a THEN b - a + 1 ELSE 0) |-> a + i - 1]

\* C1: stream(tip=H, last=L) hands the consumer the heights L, L+1, ... in
\* strictly increasing order without a gap, whatever the parallelism and
\* the order in which the fetches finish, and a stream that ends has
\* emitted exactly L..H.
C1_StreamOrdered ==
  /\ \A i \in 1..Len(emitted) : emitted[i] = lastH + i - 1
  /\ Len(emitted) <= Len(HeightRange(lastH, tipH))
  /\ smode = "done" => emitted = HeightRange(lastH, tipH)

\* a stream with parallelism above 1 ended after three or more blocks whose
\* fetches finished out of height order
C1_Witness ==
  /\ smode = "done"
  /\ par >= 2
  /\ Len(emitted) >= 3
  /\ \E i \in 1..Len(finished) : \E j \in (i + 1)..Len(finished) :
       finished[i] > finished[j]

\* C10: the fetches started and not yet emitted never exceed fetching_par,
\* and a height is never started while fetching_par earlier heights are
\* still waiting to be emitted.
C10_BoundedInFlight ==
  /\ Cardinality(started) - Len(emitted) <= par
  /\ \A h \in started :
       Cardinality({g \in started : g < h /\ \A i \in 1..Len(emitted) : emitted[i] # g}) < par

\* the buffer is full while heights remain to be fetched and blocks have
\* already been emitted
C10_Witness ==
  /\ smode = "active"
  /\ par >= 2
  /\ Cardinality(started) - Len(emitted) = par
  /\ nextH <= tipH
  /\ emitted # <<>>

\* ------------------------------------------------ rows of a stored block
SeqToSet(q) == {q[i] : i \in 1..Len(q)}

TxsOf(block) == SeqToSet(block.transactions)
OutputsOf(block) == UNION {SeqToSet(tx.utxos) : tx \in TxsOf(block)}
TxRows(block) == {[id |-> tx.id, hash |-> tx.hash] : tx \in TxsOf(block)}
UtxoRows(block) ==
  {[id |-> u.id, amount |-> u.amount, box_id |-> u.box_id] : u \in OutputsOf(block)}
AssetRows(block) == UNION {SeqToSet(u.assets) : u \in OutputsOf(block)}
InputRows(block) == UNION {SeqToSet(tx.inputs) : tx \in TxsOf(block)}

\* no header, transaction, output or asset of the height is in the view
HeightAbsent(d, h) ==
  /\ h \notin d.blocks
  /\ \A r \in d.headers : r.id # h
  /\ \A r \in d.txs \cup d.utxos \cup d.assets : r.id[1] # h

\* the view holds the block, all of it and nothing else at its height
WhollyPresent(d, block) ==
  /\ block.id \in d.blocks
  /\ {r \in d.headers : r.id = block.id} = {block.header}
  /\ {r \in d.txs : r.id[1] = block.id} = TxRows(block)
  /\ {r \in d.utxos : r.id[1] = block.id} = UtxoRows(block)
  /\ {r \in d.assets : r.id[1] = block.id} = AssetRows(block)
  /\ InputRows(block) \subseteq d.inputs

\* the outputs of the blocks committed so far
CommittedOutputs == UNION {OutputsOf(stored[h][1]) : h \in {g \in Heights : stored[g] # None}}

\* blocks[idx] has been through populate_inputs and is not yet committed
Populated == pc \in {"write", "staging"}

\* C2: an input spending box identifier X gets the pointer of the committed
\* output whose box identifier is X (committed by an earlier call or by an
\* earlier block of the same call), and the sentinel (0, 0, 0) when no
\* committed output has that identifier.
C2_InputResolution ==
  Populated =>
    \A tx \in TxsOf(blocks[idx]) :
      /\ Len(tx.inputs) = Len(tx.transient_inputs)
      /\ \A i \in 1..Len(tx.transient_inputs) :
           /\ \A o \in CommittedOutputs :
                o.box_id = tx.transient_inputs[i] => tx.inputs[i].id = o.id
           /\ (\A o \in CommittedOutputs : o.box_id # tx.transient_inputs[i])
                => tx.inputs[i].id = <<0, 0, 0>>

\* the second block of a call spends an output of the first block of the
\* same call and resolves it, while another of its inputs is unknown
C2_Witness ==
  /\ Populated
  /\ idx = 2
  /\ \E tx \in TxsOf(blocks[idx]) : \E i \in 1..Len(tx.inputs) :
       /\ tx.inputs[i].id[1] = blocks[1].id
       /\ \E o \in OutputsOf(blocks[1]) : o.box_id = tx.transient_inputs[i]
  /\ \E tx \in TxsOf(blocks[idx]) : \E i \in 1..Len(tx.inputs) :
       tx.inputs[i].id = <<0, 0, 0>>

\* C3: an input spending an output created by an earlier transaction of the
\* same block resolves to that output's pointer (the block's height, that
\* transaction's index, that output's index).
C3_SameBlockResolved ==
  Populated =>
    \A tx \in TxsOf(blocks[idx]) : \A i \in 1..Len(tx.transient_inputs) :
      \A earlier \in TxsOf(blocks[idx]) : \A o \in SeqToSet(earlier.utxos) :
        (earlier.id[2] < tx.id[2] /\ o.box_id = tx.transient_inputs[i])
          => tx.inputs[i].id = o.id

\* every committed block is wholly in the view, every other height is absent
AllOrNothing(d, st) ==
  \A h \in Heights :
    IF st[h] = None THEN HeightAbsent(d, h) ELSE WhollyPresent(d, st[h][1])

\* the write transactions a call may have begun when it is at blocks[idx]
WritesAllowed == idx + (IF op = "update" THEN 1 ELSE 0)

StoreFailed ==
  /\ pc = "idle"
  /\ result = Some("Err")
  /\ failedAt \in {"begin_write", "store", "commit"}

\* C4: when the write transaction of block Bk fails, the call returns the
\* error, the database is exactly what it was before Bk's transaction (so
\* nothing of that transaction is in it, and Bk's height is empty unless an
\* earlier call had stored it), B1..Bk-1 and the blocks of earlier calls are
\* wholly present, and no further write transaction was begun.
C4_FailureAbortsOneBlock ==
  StoreFailed =>
    /\ db = dbTx
    /\ wtx = None
    /\ blocks[idx].id \notin dbTx.blocks => HeightAbsent(db, blocks[idx].id)
    /\ \A i \in 1..(idx - 1) :
         stored[blocks[i].id] = Some(blocks[i]) /\ WhollyPresent(db, blocks[i])
    /\ AllOrNothing(db, stored)
    /\ writes <= WritesAllowed

\* the commit of the second block of a store_blocks call failed after the
\* whole block had been staged
C4_Witness ==
  /\ StoreFailed
  /\ op = "store"
  /\ failedAt = "commit"
  /\ idx = 2
  /\ writes = 2
  /\ blocks[2].id \notin db.blocks

\* C5: whatever a read transaction of a concurrent reader observes, every
\* height is either wholly present (header, transactions, outputs, assets
\* and input refs of the committed block) or wholly absent.
C5_ReaderSeesWholeBlocks ==
  snap # None => AllOrNothing(snap[1].db, snap[1].stored)

\* a reader holds a read transaction while the write transaction of a block
\* is partly staged, next to a committed block
C5_Witness ==
  /\ snap # None
  /\ pc = "staging"
  /\ wpos = 2
  /\ \E h \in Heights : stored[h] # None
  /\ wtx # None /\ wtx[1] # db

\* C6: update_blocks([B]) followed by store_blocks([B]), on a fresh store,
\* leaves the store as a single store_blocks([B]) on an empty store does.
C6_UpdateThenStoreIsStore ==
  (pc = "idle" /\ Len(trail) = 2) =>
    db = StoreOne(EmptyDb, BlockOf(trail[1][1], trail[1][2]))

\* the greatest committed height
Tip == CHOOSE h \in Heights : stored[h] # None /\ \A g \in Heights : stored[g] # None => g <= h

\* C7: get_last_header is empty when no block is committed and otherwise the
\* header of the greatest committed height; after a successful
\* store_blocks([B1..Bn]) that reached the top of the chain it is Bn's header.
C7_LastHeader ==
  /\ (\A h \in Heights : stored[h] = None) => GetLastHeader(db) = None
  /\ (\E h \in Heights : stored[h] # None) =>
       GetLastHeader(db) = Some(stored[Tip][1].header)
  /\ (/\ pc = "idle" /\ result = Some("Ok")
      /\ \A h \in Heights : stored[h] # None => h <= blocks[Len(blocks)].id)
       => GetLastHeader(db) = Some(BlockOf(args[Len(args)][1], args[Len(args)][2]).header)

\* a store_blocks of two blocks has returned Ok and reached the top height
C7_Witness ==
  /\ pc = "idle"
  /\ op = "store"
  /\ result = Some("Ok")
  /\ Len(blocks) = 2
  /\ blocks[2].id = MaxHeight
  /\ \A h \in Heights : stored[h] # None
  /\ GetLastHeader(db) = Some(blocks[2].header)

\* C8: for every block that is currently committed, get_header_by_hash of
\* its hash returns exactly one header, the block's own.
C8_HeaderByHash ==
  \A h \in Heights :
    stored[h] # None =>
      GetHeaderByHash(db, stored[h][1].header.hash) = <<stored[h][1].header>>

\* an update_blocks has replaced a committed block by another version
C8_Witness ==
  /\ pc = "idle"
  /\ op = "update"
  /\ result = Some("Ok")
  /\ deleted # {}
  /\ \E h \in deleted : stored[h] # None /\ stored[h][1].header.hash # HashOf(h, 0)
  /\ Cardinality({h \in Heights : stored[h] # None}) >= 2

\* C9: no read transaction of a concurrent reader sees a height that
\* update_blocks has deleted and not yet stored again.
C9_NoReaderMidReorg ==
  snap # None =>
    \A h \in snap[1].replacing : ~HeightAbsent(snap[1].db, h)

\* C11: once the fetch of a height h has returned an error, no block of
\* height h or above is handed to the consumer, the blocks handed over are
\* below h in ascending order, h is fetched once and never again, the
\* stream does not end normally, and a stream that panicked did so at the
\* first height it had not emitted, whose fetch had failed.
C11_FetchFailureIsFatal ==
  /\ \A h \in failed :
       /\ \A i \in 1..Len(emitted) : emitted[i] < h
       /\ smode # "done"
       /\ h < nextH
       /\ \A i \in 1..Len(queue) : queue[i].height = h => queue[i].st = "failed"
       /\ Cardinality({i \in 1..Len(finished) : finished[i] = h}) = 1
       /\ Cardinality({i \in 1..Len(queue) : queue[i].height = h}) <= 1
  /\ \A i \in 1..(Len(emitted) - 1) : emitted[i] < emitted[i + 1]
  /\ smode = "panicked" => (lastH + Len(emitted)) \in failed

\* the stream panicked after it had emitted a block, while a later height
\* had been fetched successfully and further heights were never started
C11_Witness ==
  /\ smode = "panicked"
  /\ Len(emitted) >= 1
  /\ \E i \in 1..Len(queue) :
       queue[i].st = "ok" /\ \A h \in failed : queue[i].height > h
  /\ nextH <= tipH

\* the loop of store_blocks is running (called directly or by update_blocks)
Storing == pc \in {"read", "write", "staging"}

\* the write transactions begun by the loop of store_blocks
StoreWrites == writes - (IF op = "update" THEN 1 ELSE 0)

Unresolved(block) == \A tx \in TxsOf(block) : tx.inputs = <<>>

C13_MintIffFirstOutputBox ==
  \A b \in SeqToSet(blocks) : \A tx \in TxsOf(b) : \A u \in SeqToSet(tx.utxos) :
    \A a \in SeqToSet(u.assets) :
      /\ a.asset_action \in {Mint, Transfer}
      /\ (a.asset_action = Mint) = (a.name = tx.utxos[1].box_id)

\* a normalised block carries, on an output that is not the first of its
\* transaction, a minted token and a token named after the output's own
\* box, and, in another transaction, a token named after the first output
\* of the first transaction
C13_Witness ==
  \E b \in SeqToSet(blocks) : \E tx \in TxsOf(b) : \E u \in SeqToSet(tx.utxos) :
    /\ u.id[3] > 0
    /\ \E a \in SeqToSet(u.assets) : a.asset_action = Mint
    /\ \E a \in SeqToSet(u.assets) : a.asset_action = Transfer /\ a.name = u.box_id
    /\ \E other \in TxsOf(b) : \E w \in SeqToSet(other.utxos) : \E a \in SeqToSet(w.assets) :
         /\ other.id # tx.id
         /\ a.name = tx.utxos[1].box_id
         /\ a.asset_action = Transfer

\* the rows of the view whose box identifier is box_id
Matches(d, box_id) == {r \in d.utxos : r.box_id = box_id}

\* the view with a second output of the same box identifier under key k
WithTwin(d, r, k) == [d EXCEPT !.utxos = @ \cup {[r EXCEPT !.id = k]}]

\* pointer keys below and above every key of the modelled chain
TwinKeys == {<<0, 0, 1>>, <<MaxHeight + 1, 0, 0>>}

\* C14: after populate_inputs every transaction of the block has one
\* InputRef per spent box identifier of the raw transaction, in the same
\* order; the InputRef is the pointer of an output of the read view with
\* that box identifier, the one of the least key when there are several,
\* and the sentinel (0, 0, 0) when there is none.
C14_OneInputRefPerSpentBox ==
  Populated =>
    /\ \A t \in 1..Len(blocks[idx].transactions) :
         LET tx == blocks[idx].transactions[t]
             raw == RawBlock(args[idx][1], args[idx][2]).transactions[t]
         IN /\ tx.transient_inputs = raw.inputs
            /\ Len(tx.inputs) = Len(raw.inputs)
            /\ \A i \in 1..Len(raw.inputs) :
                 LET m == Matches(dbTx, raw.inputs[i])
                 IN /\ Len(tx.inputs[i].id) = 3
                    /\ m = {} => tx.inputs[i].id = <<0, 0, 0>>
                    /\ m # {} =>
                         \E r \in m : /\ tx.inputs[i].id = r.id
                                      /\ \A q \in m : q.id = r.id \/ LexLess(r.id, q.id)
    /\ \A r \in dbTx.utxos : \A k \in TwinKeys :
         ResolveInput(WithTwin(dbTx, r, k), r.box_id).id
           = IF LexLess(k, r.id) THEN k ELSE r.id

\* a resolved block has a transaction with two inputs, an input that got the
\* pointer of a committed output, and an input that got the sentinel
C14_Witness ==
  /\ Populated
  /\ \E tx \in TxsOf(blocks[idx]) : Len(tx.inputs) = 2
  /\ \E tx \in TxsOf(blocks[idx]) : \E i \in 1..Len(tx.inputs) :
       \E r \in dbTx.utxos : r.id = tx.inputs[i].id /\ r.box_id = tx.transient_inputs[i]
  /\ \E tx \in TxsOf(blocks[idx]) : \E i \in 1..Len(tx.inputs) :
       tx.inputs[i].id = <<0, 0, 0>> /\ Matches(dbTx, tx.transient_inputs[i]) = {}

\* the blocks whose entities exist: the committed ones and the resolved one
Entities ==
  {stored[h][1] : h \in {g \in Heights : stored[g] # None}}
    \cup (IF Populated THEN {blocks[idx]} ELSE {})

\* transaction, output and asset keys are the parent key plus the ordinal
DerivedKeys(b) ==
  \A t \in 1..Len(b.transactions) :
    LET tx == b.transactions[t]
    IN /\ tx.id = <<b.id, t - 1>>
       /\ \A o \in 1..Len(tx.utxos) :
            /\ tx.utxos[o].id = <<b.id, t - 1, o - 1>>
            /\ \A a \in 1..Len(tx.utxos[o].assets) :
                 tx.utxos[o].assets[a].id = <<b.id, t - 1, o - 1, a - 1>>

\* an InputRef key is the owning transaction's key plus the input's ordinal
DerivedInputKeys(b) ==
  \A t \in 1..Len(b.transactions) : \A i \in 1..Len(b.transactions[t].inputs) :
    b.transactions[t].inputs[i].id = <<b.id, t - 1, i - 1>>

\* the number of input refs of the committed blocks
InputRefCount ==
  Sum([h \in Heights |->
         IF stored[h] = None THEN 0
         ELSE Sum([t \in 1..Len(stored[h][1].transactions) |->
                     Len(stored[h][1].transactions[t].inputs)])])

\* the number of transactions of the committed blocks
TransactionCount ==
  Sum([h \in Heights |->
         IF stored[h] = None THEN 0 ELSE Len(stored[h][1].transactions)])

\* C15: every pointer key is the parent's key plus a local ordinal, the
\* key of an InputRef being (pointer of the owning transaction, ordinal
\* among its inputs), and no two entities of one type share a key: the
\* store holds one row per transaction, output, asset and input ref of the
\* committed blocks.
C15_PointerKeysUnique ==
  /\ \A b \in Entities : DerivedKeys(b) /\ DerivedInputKeys(b)
  /\ pc = "idle" =>
       /\ Cardinality(db.txs) = TransactionCount
       /\ Cardinality(db.inputs) = InputRefCount

\* every row of d is a row of e
RowsSubset(d, e) ==
  /\ d.blocks \subseteq e.blocks
  /\ d.headers \subseteq e.headers
  /\ d.txs \subseteq e.txs
  /\ d.utxos \subseteq e.utxos
  /\ d.assets \subseteq e.assets
  /\ d.inputs \subseteq e.inputs

\* no row of any table lies in the key range of the height
NoRowsAt(d, h) ==
  /\ HeightAbsent(d, h)
  /\ \A r \in d.inputs : r.id[1] # h

\* C16: update_blocks begins one delete transaction, which only removes
\* rows; when the loop of store_blocks runs, that transaction is committed
\* and every given height not yet stored again is empty; each replacement
\* block then gets one write transaction, which only adds rows; a call
\* that returns Ok has begun one transaction more than it has blocks.
C16_DeleteThenStore ==
  op = "update" =>
    /\ pc = "del_begin" => (writes = 0 /\ wtx = None)
    /\ pc = "deleting" =>
         /\ writes = 1
         /\ db = dbTx
         /\ RowsSubset(wtx[1], db)
         /\ \A i \in 1..(idx - 1) : NoRowsAt(wtx[1], blocks[i].id)
         /\ \A i \in 1..Len(blocks) : Unresolved(blocks[i])
    /\ Storing =>
         /\ writes = 1 + (IF pc = "staging" THEN idx ELSE idx - 1)
         /\ \A i \in idx..Len(blocks) : NoRowsAt(db, blocks[i].id)
         /\ pc = "staging" => RowsSubset(db, wtx[1])
    /\ (pc = "idle" /\ result = Some("Ok")) => writes = 1 + Len(blocks)

\* update_blocks has deleted two committed blocks, committed the first
\* replacement and is staging the second
C16_Witness ==
  /\ op = "update"
  /\ pc = "staging"
  /\ idx = 2
  /\ wpos >= 1
  /\ writes = 3
  /\ Cardinality(deleted) = 2

\* the rows of the view in the key range of the height
RowsAt(d, h) ==
  [ blocks |-> d.blocks \cap {h},
    headers |-> {r \in d.headers : r.id = h},
    txs |-> {r \in d.txs : r.id[1] = h},
    utxos |-> {r \in d.utxos : r.id[1] = h},
    assets |-> {r \in d.assets : r.id[1] = h},
    inputs |-> {r \in d.inputs : r.id[1] = h} ]

\* C17: the write transaction store_blocks opens for a block B leaves
\* every row in the key range of every other committed height as it is.
C17_StoreTouchesOnlyItsBlock ==
  (op = "store" /\ pc = "staging") =>
    \A h \in Heights \ {blocks[idx].id} :
      stored[h] # None => RowsAt(wtx[1], h) = RowsAt(db, h)

UpdateFailed == pc = "idle" /\ op = "update" /\ result = Some("Err")

\* C18: when the delete transaction of update_blocks fails, the database is
\* what it was when the call began and every block committed before is
\* still wholly present; when the store of replacement Rk fails after the
\* delete was committed, the call returns the error, R1..Rk-1 are
\* committed and wholly present, and the heights of Rk..Rn are empty.
C18_UpdateFailure ==
  UpdateFailed =>
    /\ wtx = None
    /\ failedAt \in {"delete", "read", "begin_write", "store", "commit"}
    /\ failedAt = "delete" =>
         /\ db = dbTx
         /\ deleted = {}
         /\ AllOrNothing(db, stored)
         /\ \A i \in 1..Len(blocks) : Unresolved(blocks[i])
    /\ failedAt # "delete" =>
         /\ idx \in 1..Len(blocks)
         /\ \A i \in 1..(idx - 1) :
              stored[blocks[i].id] = Some(blocks[i]) /\ WhollyPresent(db, blocks[i])
         /\ \A i \in idx..Len(blocks) :
              stored[blocks[i].id] = None /\ NoRowsAt(db, blocks[i].id)

\* update_blocks deleted two committed blocks, committed the first
\* replacement and failed in the commit of the second
C18_Witness ==
  /\ UpdateFailed
  /\ failedAt = "commit"
  /\ idx = 2
  /\ Cardinality(deleted) = 2
  /\ stored[blocks[1].id] = Some(blocks[1])
  /\ blocks[2].id \notin db.blocks

\* the box identifiers of the outputs of all replacement blocks of the call
ReplacementBoxes ==
  {o.box_id : o \in UNION {OutputsOf(blocks[j]) : j \in 1..Len(blocks)}}

\* the outputs of the replacement blocks committed before blocks[idx]
EarlierReplacements == UNION {OutputsOf(blocks[j]) : j \in 1..(idx - 1)}

\* C19: in update_blocks no input of a replacement block is resolved to an
\* output of a replaced block: an input spending a box that existed only in
\* a replaced block gets the sentinel, an input of Rj spending an output of
\* an earlier replacement Ri gets Ri's pointer, and an input is given a
\* pointer into one of the given heights only for an output of an earlier
\* replacement with that box identifier.
C19_NoResolutionToReplaced ==
  (op = "update" /\ Populated) =>
    \A tx \in TxsOf(blocks[idx]) : \A i \in 1..Len(tx.inputs) :
      LET x == tx.transient_inputs[i]
      IN /\ (x \in replacedBoxes \ ReplacementBoxes) => tx.inputs[i].id = <<0, 0, 0>>
         /\ \A o \in EarlierReplacements : o.box_id = x => tx.inputs[i].id = o.id
         /\ tx.inputs[i].id[1] \in {blocks[j].id : j \in 1..Len(blocks)} =>
              \E o \in EarlierReplacements : o.id = tx.inputs[i].id /\ o.box_id = x

\* the second replacement block spends a box that only the replaced block
\* of the first height had, and gets the sentinel for it
C19_Witness ==
  /\ op = "update"
  /\ Populated
  /\ idx = 2
  /\ blocks[1].id \in deleted
  /\ \E tx \in TxsOf(blocks[idx]) : \E i \in 1..Len(tx.inputs) :
       /\ tx.transient_inputs[i] \in replacedBoxes \ ReplacementBoxes
       /\ tx.inputs[i].id = <<0, 0, 0>>

\* L: the height of the last indexed header handed to the call, 1 without
FirstHeight == IF lastHeader = None THEN 1 ELSE lastHeader[1]

\* max(0, H - L + 1)
StreamLength == IF tipH >= FirstHeight THEN tipH - FirstHeight + 1 ELSE 0

\* what a stream call has started and emitted stays within L..H
StreamBounded ==
  smode # "idle" =>
    /\ started \subseteq FirstHeight..tipH
    /\ Len(emitted) <= StreamLength
    /\ \A i \in 1..Len(emitted) : emitted[i] = FirstHeight + i - 1
    /\ smode = "done" => (failed = {} /\ Len(emitted) = StreamLength)
    /\ FirstHeight > tipH => (emitted = <<>> /\ started = {})

\* C20: a stream call is bounded by the tip it was given: it starts at L,
\* the last indexed height (1 without a last header), never starts or
\* emits a height outside L..H, emits nothing when L > H, has emitted
\* exactly max(0, H - L + 1) blocks when it ends, and, polled by its
\* consumer, it does end unless a fetch fails.
C20_StreamFinite ==
  /\ []StreamBounded
  /\ (smode = "active") ~> (smode = "done" \/ failed # {})

\* a call that was given a last header above height 1 has ended after
\* emitting several blocks, all fetches having succeeded
C20_Witness ==
  /\ smode = "done"
  /\ lastHeader # None
  /\ lastHeader[1] >= 2
  /\ Len(emitted) >= 2
  /\ Len(emitted) = tipH - lastHeader[1] + 1
  /\ failed = {}

====
